---- MODULE Spec2Model ----
(***************************************************************************)
(* Model of the dashboard backend: the authentication middleware           *)
(* (middleware/auth.js), the user routes (GET/DELETE /api/user/...), the   *)
(* data routes (/api/data) and registration (routes/auth.js).              *)
(*                                                                         *)
(* A request is a slot of `reqs`.  Every action is one store round trip of *)
(* a handler (one `await` on the document store) together with all the     *)
(* synchronous code of the handler that follows it up to the next await    *)
(* or the response; handlers of different requests interleave at these     *)
(* points, as they do on the node event loop.                              *)
(*                                                                         *)
(* Strings are sequences of one-character strings, so that trim() and      *)
(* toLowerCase() are computed and not assumed.  Timestamps, metadata and   *)
(* the password hash are not modelled.  A rejected store call (the store   *)
(* being unreachable) is outside the model; the catch-all 500 branches are *)
(* modelled where a request itself can drive the code into them.           *)
(***************************************************************************)
EXTENDS Integers, Sequences, FiniteSets, TLC

VARIABLES users, data, nextUserId, nextDataId, reqs

vars == <<users, data, nextUserId, nextDataId, reqs>>

-----------------------------------------------------------------------------
(* Bounds of the model *)

\* number of data records that can ever be created (record ids are 1..MaxData)
MaxData == 1
\* number of users that can ever be registered through POST /api/auth/register
MaxRegistered == 2

\* request slots: requests being served at the same time
Reqs == {"q1", "q2"}

-----------------------------------------------------------------------------
(* Strings *)

RECURSIVE trimStart(_)
trimStart(s) == IF s # <<>> /\ Head(s) = " " THEN trimStart(Tail(s)) ELSE s

RECURSIVE trimEnd(_)
trimEnd(s) ==
  IF s # <<>> /\ s[Len(s)] = " " THEN trimEnd(SubSeq(s, 1, Len(s) - 1)) ELSE s

\* String.prototype.trim
trim(s) == trimEnd(trimStart(s))

lowerChar(c) ==
  CASE c = "A" -> "a" [] c = "B" -> "b" [] c = "C" -> "c" [] c = "D" -> "d"
    [] c = "X" -> "x" [] OTHER -> c

\* String.prototype.toLowerCase
toLowerCase(s) == [i \in 1..Len(s) |-> lowerChar(s[i])]

\* new RegExp(pat, 'i').test(s) for a pattern of plain letters:
\* case-insensitive substring match
regexTestI(pat, s) ==
  \E i \in 0..(Len(s) - Len(pat)) :
      toLowerCase(SubSeq(s, i + 1, i + Len(pat))) = toLowerCase(pat)

-----------------------------------------------------------------------------
(* Bearer tokens and the authentication middleware *)

\* user identifiers: 1..3 are seeded, the next ones are given by registration,
\* NoSuchUser is a well-formed identifier that names no user
SeedUsers == {1, 2, 3}
NoSuchUser == 9

NoUser == [_id |-> 0, role |-> "none", isActive |-> FALSE]

\* a token, as the codec sees it: its signature, its expiry and its id claim
Token(sig, exp, id) == [sig |-> sig, expired |-> exp, id |-> id]

\* the Authorization header split at the blanks: <<scheme, token>>
NoHeader == <<>>
Bearer(t) == <<"Bearer", t>>

\* authHeader && authHeader.split(' ')[1]; the empty sequence stands for undefined
extractToken(header) == IF Len(header) >= 2 THEN <<header[2]>> ELSE <<>>

\* jwt.verify: the signature is checked before the expiry
jwtVerify(t) ==
  IF t.sig # "ok" THEN [err |-> "JsonWebTokenError", id |-> 0]
  ELSE IF t.expired THEN [err |-> "TokenExpiredError", id |-> 0]
  ELSE [err |-> "none", id |-> t.id]

\* the lookup served from a cache filled when the server started
findUser_Cached(us, id) ==
  IF id \in SeedUsers
    THEN [_id |-> id, role |-> "user", isActive |-> TRUE]
    ELSE NoUser

\* User.findById(id) against the user store us
findUser(us, id) ==
  IF id \in DOMAIN us
    THEN [_id |-> id, role |-> us[id].role, isActive |-> us[id].isActive]
    ELSE NoUser

\* authenticateToken without the isActive test
authenticateToken_NoActiveCheck(header, us) ==
  LET tok == extractToken(header) IN
  IF tok = <<>> THEN [status |-> 401, user |-> NoUser, next |-> 0]
  ELSE LET decoded == jwtVerify(tok[1]) IN
    IF decoded.err # "none" THEN [status |-> 401, user |-> NoUser, next |-> 0]
    ELSE LET user == findUser(us, decoded.id) IN
      IF user = NoUser THEN [status |-> 401, user |-> NoUser, next |-> 0]
      ELSE [status |-> 0, user |-> user, next |-> 1]

\* authenticateToken: the status it responds with (0: none, next() was called)
\* and the identity it attaches to the request
authenticateToken(header, us) ==
  LET tok == extractToken(header) IN
  IF tok = <<>> THEN [status |-> 401, user |-> NoUser, next |-> 0]
  ELSE LET decoded == jwtVerify(tok[1]) IN
    IF decoded.err # "none" THEN [status |-> 401, user |-> NoUser, next |-> 0]
    ELSE LET user == findUser(us, decoded.id) IN
      IF user = NoUser THEN [status |-> 401, user |-> NoUser, next |-> 0]
      ELSE IF ~user.isActive THEN [status |-> 401, user |-> NoUser, next |-> 0]
      ELSE [status |-> 0, user |-> user, next |-> 1]

\* optionalAuth whose catch block answers 401 instead of calling next()
optionalAuth_FailsInvalid(header, us) ==
  LET tok == extractToken(header) IN
  IF tok = <<>> THEN [status |-> 0, user |-> NoUser, next |-> 1]
  ELSE LET decoded == jwtVerify(tok[1]) IN
    IF decoded.err # "none" THEN [status |-> 401, user |-> NoUser, next |-> 0]
    ELSE LET user == findUser(us, decoded.id) IN
      IF user # NoUser /\ user.isActive
        THEN [status |-> 0, user |-> user, next |-> 1]
        ELSE [status |-> 0, user |-> NoUser, next |-> 1]

\* optionalAuth: never responds; next() is called on both paths
optionalAuth(header, us) ==
  LET tok == extractToken(header) IN
  IF tok = <<>> THEN [status |-> 0, user |-> NoUser, next |-> 1]
  ELSE LET decoded == jwtVerify(tok[1]) IN
    IF decoded.err # "none" THEN [status |-> 0, user |-> NoUser, next |-> 1]
    ELSE LET user == findUser(us, decoded.id) IN
      IF user # NoUser /\ user.isActive
        THEN [status |-> 0, user |-> user, next |-> 1]
        ELSE [status |-> 0, user |-> NoUser, next |-> 1]

\* requireAdmin: the status it responds with (0: next())
requireAdmin(user) ==
  IF user = NoUser THEN 401 ELSE IF user.role # "admin" THEN 403 ELSE 0

\* requireOwnership(resourceUserId): the status it responds with (0: next())
requireOwnership(user, resourceUserId) ==
  IF user = NoUser THEN 401
  ELSE IF user._id = resourceUserId \/ user.role = "admin" THEN 0
  ELSE 403

-----------------------------------------------------------------------------
(* Request bodies and data records *)

validCategories == {"analytics", "reports", "insights", "metrics", "other"}
validStatuses == {"active", "inactive", "pending"}
MaxTitleLen == 100
MaxDescriptionLen == 500

\* a JSON value of the body's `value` key: a number, or something else
Num(n) == [t |-> "number", n |-> n]
NotNum == [t |-> "string", n |-> 0]
\* a JSON value of the body's `tags` key: an array of strings, or something else
Arr(s) == [arr |-> TRUE, v |-> s]
NotArr == [arr |-> FALSE, v |-> <<>>]

\* a request body: `has` holds the keys that are present (not undefined); the
\* other keys hold a fixed filler that no handler reads
NoBody ==
  [has |-> {}, title |-> <<>>, description |-> <<>>, category |-> "",
   value |-> Num(0), unit |-> <<>>, tags |-> Arr(<<>>), status |-> "",
   isPublic |-> FALSE, user |-> 0]

Has(b, k) == k \in b.has

\* tags.filter(tag => tag.trim())
filterTags(ts) == SelectSeq(ts, LAMBDA tg : trim(tg) # <<>>)

\* the value test without typeof
badValue_NoTypeof(v) == v.n < 0

\* the typeof value !== 'number' || value < 0 test of POST and PUT
badValue(v) == v.t # "number" \/ v.n < 0

\* the schema's validators over the paths named in ks (dataSchema)
schemaValid(d, ks) ==
  /\ "title" \in ks => (Len(d.title) > 0 /\ Len(d.title) <= MaxTitleLen)
  /\ "description" \in ks => Len(d.description) <= MaxDescriptionLen
  /\ "category" \in ks => d.category \in validCategories
  /\ "value" \in ks => d.value >= 0
  /\ "status" \in ks => d.status \in validStatuses

AllPaths == {"title", "description", "category", "value", "unit", "tags",
             "status", "isPublic"}

\* new Data({...}) of POST /api/data, for a body that passed the handler's checks
newData(b, id, owner) ==
  [_id |-> id,
   title |-> trim(b.title),
   description |-> IF Has(b, "description") /\ b.description # <<>>
                     THEN trim(b.description) ELSE <<>>,
   category |-> b.category,
   value |-> b.value.n,
   unit |-> IF Has(b, "unit") /\ b.unit # <<>> THEN trim(b.unit) ELSE <<>>,
   tags |-> IF Has(b, "tags") /\ b.tags.arr THEN filterTags(b.tags.v) ELSE <<>>,
   status |-> "active",
   isPublic |-> Has(b, "isPublic") /\ b.isPublic,
   user |-> owner]

\* the handler's checks of POST /api/data: 0 when the body passes, else 400
postCheck(b) ==
  IF \/ ~Has(b, "title") \/ b.title = <<>>
     \/ ~Has(b, "category") \/ b.category = ""
     \/ ~Has(b, "value")
    THEN 400
  ELSE IF b.category \notin validCategories THEN 400
  ELSE IF badValue(b.value) THEN 400
  ELSE 0

\* the handler's checks of PUT /api/data/:id while it builds updateFields
putCheck(b) ==
  IF Has(b, "category") /\ b.category \notin validCategories THEN 400
  ELSE IF Has(b, "value") /\ badValue(b.value) THEN 400
  ELSE IF Has(b, "status") /\ b.status \notin validStatuses THEN 400
  ELSE 0

\* updateFields of PUT /api/data/:id: the keys to $set and their values
updateFields(b) ==
  [has |-> b.has \cap AllPaths,
   title |-> IF Has(b, "title") THEN trim(b.title) ELSE <<>>,
   description |-> IF Has(b, "description") THEN trim(b.description) ELSE <<>>,
   category |-> IF Has(b, "category") THEN b.category ELSE "",
   value |-> IF Has(b, "value") THEN b.value.n ELSE 0,
   unit |-> IF Has(b, "unit") THEN trim(b.unit) ELSE <<>>,
   tags |-> IF Has(b, "tags")
              THEN (IF b.tags.arr THEN filterTags(b.tags.v) ELSE <<>>) ELSE <<>>,
   status |-> IF Has(b, "status") THEN b.status ELSE "",
   isPublic |-> IF Has(b, "isPublic") THEN b.isPublic ELSE FALSE]

NoUpdate == updateFields(NoBody)

\* a replacement of the document by updateFields instead of a $set
applySet_Replace(d, u) ==
  [_id |-> d._id, title |-> u.title, description |-> u.description,
   category |-> u.category, value |-> u.value, unit |-> u.unit, tags |-> u.tags,
   status |-> u.status, isPublic |-> u.isPublic, user |-> d.user]

\* { $set: updateFields } applied to the document d
applySet(d, u) ==
  [_id |-> d._id,
   title |-> IF Has(u, "title") THEN u.title ELSE d.title,
   description |-> IF Has(u, "description") THEN u.description ELSE d.description,
   category |-> IF Has(u, "category") THEN u.category ELSE d.category,
   value |-> IF Has(u, "value") THEN u.value ELSE d.value,
   unit |-> IF Has(u, "unit") THEN u.unit ELSE d.unit,
   tags |-> IF Has(u, "tags") THEN u.tags ELSE d.tags,
   status |-> IF Has(u, "status") THEN u.status ELSE d.status,
   isPublic |-> IF Has(u, "isPublic") THEN u.isPublic ELSE d.isPublic,
   user |-> d.user]

\* a :id parameter the store cannot cast to an identifier (CastError)
MalformedId == 0
isObjectId(id) == id # MalformedId

-----------------------------------------------------------------------------
(* Store queries *)

\* the documents of a store (a function from identifiers to documents)
docsOf(st) == {st[i] : i \in DOMAIN st}

\* the store without the documents whose identifier is in ids
without(st, ids) == [i \in (DOMAIN st) \ ids |-> st[i]]

\* the list query of GET /api/data: page and limit already parsed
NoQuery ==
  [page |-> 1, limit |-> 10, category |-> "", status |-> "", search |-> <<>>,
   sortBy |-> "createdAt", sortOrder |-> "desc"]

\* the filter of GET /api/data applied to one document
matchesFilter(d, owner, qy) ==
  /\ d.user = owner
  /\ qy.category # "" => d.category = qy.category
  /\ qy.status # "" => d.status = qy.status
  /\ qy.search # <<>> =>
       LET pat == trim(qy.search) IN
         \/ regexTestI(pat, d.title)
         \/ regexTestI(pat, d.description)
         \/ \E i \in 1..Len(d.tags) : regexTestI(pat, d.tags[i])

\* the sort key: createdAt grows with the identifier, records being created
\* one after the other; equal keys keep the order of the identifiers
sortKey(d, by) == IF by = "value" THEN d.value ELSE d._id

comesFirst(x, y, by, order) ==
  IF sortKey(x, by) = sortKey(y, by) THEN x._id <= y._id
  ELSE IF order = "desc" THEN sortKey(x, by) > sortKey(y, by)
  ELSE sortKey(x, by) < sortKey(y, by)

RECURSIVE sortDocs(_, _, _)
sortDocs(S, by, order) ==
  IF S = {} THEN <<>>
  ELSE LET m == CHOOSE x \in S : \A y \in S : comesFirst(x, y, by, order)
       IN <<m>> \o sortDocs(S \ {m}, by, order)

\* .limit(l).skip(s) of the store on a sorted result: limit 0 is no limit, a
\* negative limit counts as its absolute value; s >= 0 (the store rejects s < 0)
skipLimit(sq, s, l) ==
  LET n == IF l = 0 THEN Len(sq) ELSE IF l < 0 THEN -l ELSE l
      last == IF s + n < Len(sq) THEN s + n ELSE Len(sq)
  IN IF s >= Len(sq) THEN <<>> ELSE SubSeq(sq, s + 1, last)

\* Math.ceil(total / limit) in floating point: not finite when limit is 0
mathCeilDiv(total, l) ==
  IF l = 0 THEN [finite |-> FALSE, n |-> 0]
  ELSE IF l > 0 THEN [finite |-> TRUE, n |-> (total + l - 1) \div l]
  ELSE [finite |-> TRUE, n |-> -(total \div (-l))]

NoPagination ==
  [page |-> 0, limit |-> 0, total |-> 0, pages |-> [finite |-> TRUE, n |-> 0]]

-----------------------------------------------------------------------------
(* Requests *)

IdleReq ==
  [kind |-> "none", pc |-> "idle", header |-> NoHeader, id |-> MalformedId,
   body |-> NoBody, query |-> NoQuery, email |-> <<>>, search |-> <<>>,
   user |-> NoUser, updateFields |-> NoUpdate, found |-> <<>>, status |-> 0,
   out |-> <<>>, pagination |-> NoPagination, next |-> 0]

\* a slot takes a new request when it serves none
Free(q) == reqs[q].pc \in {"idle", "done"}

\* res.status(s).json(...): the request is over
respond(r, s) == [r EXCEPT !.pc = "done", !.status = s]

\* the authenticateToken stage of a route: the request runs on to the
\* handler (at pc) or is over with the middleware's response
authenticated(r, us, pc) ==
  LET a == authenticateToken(r.header, us) IN
  IF a.status # 0 THEN respond(r, a.status)
  ELSE [r EXCEPT !.user = a.user, !.next = a.next, !.pc = pc]

-----------------------------------------------------------------------------
(* POST /api/data *)

\* the POST /api/data requests that are about to insert a record
savesInFlight == {p \in Reqs : reqs[p].kind = "POST /api/data" /\ reqs[p].pc = "save"}

\* authenticateToken, then the handler up to newData.save()
PostData_Start(q, header, body) ==
  /\ Free(q)
  /\ nextDataId + Cardinality(savesInFlight) <= MaxData
  /\ LET r == [IdleReq EXCEPT !.kind = "POST /api/data", !.header = header,
                              !.body = body]
         a == authenticated(r, users, "save")
     IN reqs' = [reqs EXCEPT ![q] =
                   IF a.pc = "done" THEN a
                   ELSE IF postCheck(body) # 0 THEN respond(a, postCheck(body))
                   ELSE a]
  /\ UNCHANGED <<users, data, nextUserId, nextDataId>>

\* newData.save(): schema validation, then the insert
PostData_Save(q) ==
  /\ reqs[q].kind = "POST /api/data" /\ reqs[q].pc = "save"
  /\ LET d == newData(reqs[q].body, nextDataId, reqs[q].user._id) IN
     IF schemaValid(d, AllPaths)
       THEN /\ data' = (nextDataId :> d) @@ data
            /\ nextDataId' = nextDataId + 1
            /\ reqs' = [reqs EXCEPT ![q] = [respond(@, 201) EXCEPT !.out = <<d>>]]
       ELSE /\ reqs' = [reqs EXCEPT ![q] = respond(@, 400)]
            /\ UNCHANGED <<data, nextDataId>>
  /\ UNCHANGED <<users, nextUserId>>

-----------------------------------------------------------------------------
(* GET /api/data *)

GetList_Start(q, header, qy) ==
  /\ Free(q)
  /\ LET r == [IdleReq EXCEPT !.kind = "GET /api/data", !.header = header,
                              !.query = qy]
     IN reqs' = [reqs EXCEPT ![q] = authenticated(r, users, "find")]
  /\ UNCHANGED <<users, data, nextUserId, nextDataId>>

\* Data.find(filter).sort(sort).limit(limit).skip((page - 1) * limit)
GetList_Find(q) ==
  /\ reqs[q].kind = "GET /api/data" /\ reqs[q].pc = "find"
  /\ LET qy == reqs[q].query
         hits == {d \in docsOf(data) : matchesFilter(d, reqs[q].user._id, qy)}
         skip == (qy.page - 1) * qy.limit
     IN reqs' = [reqs EXCEPT ![q] =
                   IF skip < 0 THEN respond(@, 500)
                   ELSE [@ EXCEPT !.pc = "count",
                           !.found = skipLimit(sortDocs(hits, qy.sortBy, qy.sortOrder),
                                               skip, qy.limit)]]
  /\ UNCHANGED <<users, data, nextUserId, nextDataId>>

\* Data.countDocuments(filter), then the response
GetList_Count(q) ==
  /\ reqs[q].kind = "GET /api/data" /\ reqs[q].pc = "count"
  /\ LET qy == reqs[q].query
         total == Cardinality({d \in docsOf(data) :
                                 matchesFilter(d, reqs[q].user._id, qy)})
     IN reqs' = [reqs EXCEPT ![q] =
                   [respond(@, 200) EXCEPT
                      !.out = reqs[q].found, !.found = <<>>,
                      !.pagination = [page |-> qy.page, limit |-> qy.limit,
                                      total |-> total,
                                      pages |-> mathCeilDiv(total, qy.limit)]]]
  /\ UNCHANGED <<users, data, nextUserId, nextDataId>>

-----------------------------------------------------------------------------
(* GET /api/data/:id *)

GetOne_Start(q, header, id) ==
  /\ Free(q)
  /\ LET r == [IdleReq EXCEPT !.kind = "GET /api/data/:id", !.header = header,
                              !.id = id]
     IN reqs' = [reqs EXCEPT ![q] = authenticated(r, users, "findById")]
  /\ UNCHANGED <<users, data, nextUserId, nextDataId>>

\* the ownership check left out
ownsRecord_Unchecked(d, user) == TRUE

\* the inline ownership check of the data routes: the owner and nobody else
ownsRecord(d, user) == d.user = user._id

\* Data.findById(id), the ownership check, the response
GetOne_Find(q) ==
  /\ reqs[q].kind = "GET /api/data/:id" /\ reqs[q].pc = "findById"
  /\ LET id == reqs[q].id IN
     reqs' = [reqs EXCEPT ![q] =
                IF ~isObjectId(id) THEN respond(@, 400)
                ELSE IF id \notin DOMAIN data THEN respond(@, 404)
                ELSE IF ~ownsRecord(data[id], reqs[q].user) THEN respond(@, 403)
                ELSE [respond(@, 200) EXCEPT !.out = <<data[id]>>]]
  /\ UNCHANGED <<users, data, nextUserId, nextDataId>>

-----------------------------------------------------------------------------
(* PUT /api/data/:id *)

PutData_Start(q, header, id, body) ==
  /\ Free(q)
  /\ LET r == [IdleReq EXCEPT !.kind = "PUT /api/data/:id", !.header = header,
                              !.id = id, !.body = body]
     IN reqs' = [reqs EXCEPT ![q] = authenticated(r, users, "findById")]
  /\ UNCHANGED <<users, data, nextUserId, nextDataId>>

\* Data.findById(id), the ownership check, the building of updateFields
PutData_Find(q) ==
  /\ reqs[q].kind = "PUT /api/data/:id" /\ reqs[q].pc = "findById"
  /\ LET id == reqs[q].id
         b == reqs[q].body
     IN reqs' = [reqs EXCEPT ![q] =
                   IF ~isObjectId(id) THEN respond(@, 400)
                   ELSE IF id \notin DOMAIN data THEN respond(@, 404)
                   ELSE IF ~ownsRecord(data[id], reqs[q].user) THEN respond(@, 403)
                   ELSE IF putCheck(b) # 0 THEN respond(@, putCheck(b))
                   ELSE [@ EXCEPT !.pc = "update", !.updateFields = updateFields(b)]]
  /\ UNCHANGED <<users, data, nextUserId, nextDataId>>

\* Data.findByIdAndUpdate(id, { $set: updateFields }, { runValidators: true }):
\* the validators run first; the write is one atomic store operation, and it
\* finds nothing (null) when the record is gone; the handler responds 200
PutData_Update(q) ==
  /\ reqs[q].kind = "PUT /api/data/:id" /\ reqs[q].pc = "update"
  /\ LET id == reqs[q].id
         u == reqs[q].updateFields
     IN IF ~schemaValid(u, u.has)
          THEN /\ reqs' = [reqs EXCEPT ![q] = respond(@, 400)]
               /\ data' = data
          ELSE IF id \in DOMAIN data
            THEN /\ data' = [data EXCEPT ![id] = applySet(@, u)]
                 /\ reqs' = [reqs EXCEPT ![q] =
                               [respond(@, 200) EXCEPT !.out = <<applySet(data[id], u)>>]]
            ELSE /\ reqs' = [reqs EXCEPT ![q] = respond(@, 200)]
                 /\ data' = data
  /\ UNCHANGED <<users, nextUserId, nextDataId>>

-----------------------------------------------------------------------------
(* DELETE /api/data/:id *)

DeleteData_Start(q, header, id) ==
  /\ Free(q)
  /\ LET r == [IdleReq EXCEPT !.kind = "DELETE /api/data/:id", !.header = header,
                              !.id = id]
     IN reqs' = [reqs EXCEPT ![q] = authenticated(r, users, "findById")]
  /\ UNCHANGED <<users, data, nextUserId, nextDataId>>

\* the record deleted as soon as it is found, before the ownership check
DeleteData_Find_DeleteFirst(q) ==
  /\ reqs[q].kind = "DELETE /api/data/:id" /\ reqs[q].pc = "findById"
  /\ LET id == reqs[q].id IN
     /\ reqs' = [reqs EXCEPT ![q] =
                   IF ~isObjectId(id) THEN respond(@, 400)
                   ELSE IF id \notin DOMAIN data THEN respond(@, 404)
                   ELSE IF ~ownsRecord(data[id], reqs[q].user) THEN respond(@, 403)
                   ELSE [@ EXCEPT !.pc = "delete"]]
     /\ data' = without(data, {id})
  /\ UNCHANGED <<users, nextUserId, nextDataId>>

\* Data.findById(id) and the ownership check
DeleteData_Find(q) ==
  /\ reqs[q].kind = "DELETE /api/data/:id" /\ reqs[q].pc = "findById"
  /\ LET id == reqs[q].id IN
     reqs' = [reqs EXCEPT ![q] =
                IF ~isObjectId(id) THEN respond(@, 400)
                ELSE IF id \notin DOMAIN data THEN respond(@, 404)
                ELSE IF ~ownsRecord(data[id], reqs[q].user) THEN respond(@, 403)
                ELSE [@ EXCEPT !.pc = "delete"]]
  /\ UNCHANGED <<users, data, nextUserId, nextDataId>>

\* Data.findByIdAndDelete(id), then the response
DeleteData_Delete(q) ==
  /\ reqs[q].kind = "DELETE /api/data/:id" /\ reqs[q].pc = "delete"
  /\ data' = without(data, {reqs[q].id})
  /\ reqs' = [reqs EXCEPT ![q] = respond(@, 200)]
  /\ UNCHANGED <<users, nextUserId, nextDataId>>

-----------------------------------------------------------------------------
(* DELETE /api/user/account *)

\* the body's password is read and never used
DeleteAccount_Start(q, header) ==
  /\ Free(q)
  /\ LET r == [IdleReq EXCEPT !.kind = "DELETE /api/user/account",
                              !.header = header]
     IN reqs' = [reqs EXCEPT ![q] = authenticated(r, users, "deleteMany")]
  /\ UNCHANGED <<users, data, nextUserId, nextDataId>>

\* Data.deleteMany({ user: req.user._id })
DeleteAccount_DeleteMany(q) ==
  /\ reqs[q].kind = "DELETE /api/user/account" /\ reqs[q].pc = "deleteMany"
  /\ data' = without(data, {i \in DOMAIN data : data[i].user = reqs[q].user._id})
  /\ reqs' = [reqs EXCEPT ![q].pc = "deleteUser"]
  /\ UNCHANGED <<users, nextUserId, nextDataId>>

\* User.findByIdAndDelete(req.user._id), then the response
DeleteAccount_DeleteUser(q) ==
  /\ reqs[q].kind = "DELETE /api/user/account" /\ reqs[q].pc = "deleteUser"
  /\ users' = without(users, {reqs[q].user._id})
  /\ reqs' = [reqs EXCEPT ![q] = respond(@, 200)]
  /\ UNCHANGED <<data, nextUserId, nextDataId>>

-----------------------------------------------------------------------------
(* GET /api/user/profile *)

Profile_Start(q, header) ==
  /\ Free(q)
  /\ LET r == [IdleReq EXCEPT !.kind = "GET /api/user/profile", !.header = header]
     IN reqs' = [reqs EXCEPT ![q] = authenticated(r, users, "findById")]
  /\ UNCHANGED <<users, data, nextUserId, nextDataId>>

\* User.findById(req.user._id), then the response
Profile_Find(q) ==
  /\ reqs[q].kind = "GET /api/user/profile" /\ reqs[q].pc = "findById"
  /\ reqs' = [reqs EXCEPT ![q] =
                IF findUser(users, reqs[q].user._id) = NoUser
                  THEN respond(@, 404) ELSE respond(@, 200)]
  /\ UNCHANGED <<users, data, nextUserId, nextDataId>>

-----------------------------------------------------------------------------
(* A route behind optionalAuth: the stage runs, then whatever follows it *)

OptionalAuth_Run(q, header) ==
  /\ Free(q)
  /\ LET r == [IdleReq EXCEPT !.kind = "optionalAuth", !.header = header]
         a == optionalAuth(header, users)
     IN reqs' = [reqs EXCEPT ![q] =
                   IF a.status # 0 THEN respond(r, a.status)
                   ELSE [r EXCEPT !.user = a.user, !.next = a.next, !.pc = "done"]]
  /\ UNCHANGED <<users, data, nextUserId, nextDataId>>

-----------------------------------------------------------------------------
(* GET /api/user/search *)

\* the user documents of the store, with their identifiers
userDocs(us) == {[_id |-> i, email |-> us[i].email] : i \in DOMAIN us}

\* the $or filter of the search; of the four fields it names, the store of
\* the model holds the email
matchesSearch(d, pat) == regexTestI(pat, d.email)

\* authenticateToken, then the handler up to User.find()
Search_Start(q, header, search, page, limit) ==
  /\ Free(q)
  /\ LET r == [IdleReq EXCEPT !.kind = "GET /api/user/search", !.header = header,
                              !.search = search, !.query.page = page,
                              !.query.limit = limit]
         a == authenticated(r, users, "find")
     IN reqs' = [reqs EXCEPT ![q] =
                   IF a.pc = "done" THEN a
                   ELSE IF search = <<>> \/ Len(trim(search)) < 2 THEN respond(a, 400)
                   ELSE a]
  /\ UNCHANGED <<users, data, nextUserId, nextDataId>>

\* User.find({ $or }).limit(limit).skip((page - 1) * limit).sort({ createdAt: -1 })
Search_Find(q) ==
  /\ reqs[q].kind = "GET /api/user/search" /\ reqs[q].pc = "find"
  /\ LET qy == reqs[q].query
         hits == {d \in userDocs(users) : matchesSearch(d, trim(reqs[q].search))}
         skip == (qy.page - 1) * qy.limit
     IN reqs' = [reqs EXCEPT ![q] =
                   IF skip < 0 THEN respond(@, 500)
                   ELSE [@ EXCEPT !.pc = "count",
                           !.found = skipLimit(sortDocs(hits, "createdAt", "desc"),
                                               skip, qy.limit)]]
  /\ UNCHANGED <<users, data, nextUserId, nextDataId>>

\* User.countDocuments({ $or }), then the response
Search_Count(q) ==
  /\ reqs[q].kind = "GET /api/user/search" /\ reqs[q].pc = "count"
  /\ LET qy == reqs[q].query
         total == Cardinality({d \in userDocs(users) :
                                 matchesSearch(d, trim(reqs[q].search))})
     IN reqs' = [reqs EXCEPT ![q] =
                   [respond(@, 200) EXCEPT
                      !.out = reqs[q].found, !.found = <<>>,
                      !.pagination = [page |-> qy.page, limit |-> qy.limit,
                                      total |-> total,
                                      pages |-> mathCeilDiv(total, qy.limit)]]]
  /\ UNCHANGED <<users, data, nextUserId, nextDataId>>

-----------------------------------------------------------------------------
(* POST /api/auth/register *)

\* the unique index on the email of a user: a save with an email that a
\* stored user has is rejected by the store
uniqueIndexAllows(us, email) == \A i \in DOMAIN us : us[i].email # email

\* the role and the active flag a user is created with
newUserDefaults == [role |-> "user", isActive |-> TRUE]

\* the POST /api/auth/register requests that are about to save a user
registersInFlight ==
  {p \in Reqs : reqs[p].kind = "POST /api/auth/register" /\ reqs[p].pc = "save"}

\* User.findOne({ email: email.toLowerCase() }); the handler goes on to hash
\* the password
Register_FindOne(q, email) ==
  /\ Free(q)
  /\ nextUserId + Cardinality(registersInFlight) <= Cardinality(SeedUsers) + MaxRegistered
  /\ LET r == [IdleReq EXCEPT !.kind = "POST /api/auth/register", !.email = email,
                              !.pc = "save"]
     IN reqs' = [reqs EXCEPT ![q] =
                   IF \E i \in DOMAIN users : users[i].email = toLowerCase(email)
                     THEN respond(r, 400) ELSE r]
  /\ UNCHANGED <<users, data, nextUserId, nextDataId>>

\* new User({ email: email.toLowerCase(), ... }).save(): the insert, or the
\* duplicate-key error of the store, which the catch block answers with 500
Register_Save(q) ==
  /\ reqs[q].kind = "POST /api/auth/register" /\ reqs[q].pc = "save"
  /\ LET email == toLowerCase(reqs[q].email) IN
     IF uniqueIndexAllows(users, email)
       THEN /\ users' = (nextUserId :> [email |-> email,
                                        role |-> newUserDefaults.role,
                                        isActive |-> newUserDefaults.isActive])
                          @@ users
            /\ nextUserId' = nextUserId + 1
            /\ reqs' = [reqs EXCEPT ![q] =
                          [respond(@, 201) EXCEPT
                             !.user = findUser(users', nextUserId)]]
       ELSE /\ reqs' = [reqs EXCEPT ![q] = respond(@, 500)]
            /\ UNCHANGED <<users, nextUserId>>
  /\ UNCHANGED <<data, nextDataId>>

-----------------------------------------------------------------------------
(* The data routes and account deletion, served concurrently *)

ValidToken(u) == Token("ok", FALSE, u)

\* the seeded user store: two ordinary users and an admin
SeedStore ==
  (1 :> [email |-> <<"a", "@", "x">>, role |-> "user", isActive |-> TRUE]) @@
  (2 :> [email |-> <<"b", "@", "x">>, role |-> "user", isActive |-> TRUE]) @@
  (3 :> [email |-> <<"c", "@", "x">>, role |-> "admin", isActive |-> TRUE])

EmptyStore == [i \in {} |-> 0]

\* a body POST /api/data accepts, and one PUT /api/data/:id accepts
GoodPost ==
  [NoBody EXCEPT !.has = {"title", "category", "value", "unit"},
     !.title = <<"c">>, !.category = "metrics", !.value = Num(42),
     !.unit = <<"%">>]
StatusOnly == [NoBody EXCEPT !.has = {"status"}, !.status = "inactive"]

\* the record identifiers a client can name
RecordIds == 1..MaxData

Tokens(U) == {Bearer(ValidToken(u)) : u \in U}

InitSeeded ==
  /\ users = SeedStore
  /\ data = EmptyStore
  /\ nextUserId = 4
  /\ nextDataId = 1
  /\ reqs = [q \in Reqs |-> IdleReq]

-----------------------------------------------------------------------------
(* SpecOwn: the data routes served to two users and an admin *)

\* every user creates records; user 1 and the admin also read, update and
\* delete by identifier
Callers == {1, 3}

NextOwn ==
  \E q \in Reqs :
    \/ \E h \in Tokens(SeedUsers) : PostData_Start(q, h, GoodPost)
    \/ PostData_Save(q)
    \/ \E h \in Tokens(Callers) : GetList_Start(q, h, NoQuery)
    \/ GetList_Find(q)
    \/ GetList_Count(q)
    \/ \E h \in Tokens(Callers), id \in RecordIds : GetOne_Start(q, h, id)
    \/ GetOne_Find(q)
    \/ \E h \in Tokens(Callers), id \in RecordIds : PutData_Start(q, h, id, StatusOnly)
    \/ PutData_Find(q)
    \/ PutData_Update(q)
    \/ \E h \in Tokens(Callers), id \in RecordIds : DeleteData_Start(q, h, id)
    \/ DeleteData_Find(q)
    \/ DeleteData_Delete(q)

SpecOwn == InitSeeded /\ [][NextOwn]_vars

-----------------------------------------------------------------------------
(* SpecAuth: the two authentication stages, whatever the client sends *)

\* user 2 has been deactivated (no route of the program clears or sets the
\* flag; it is changed in the store directly)
AuthStore == [SeedStore EXCEPT ![2].isActive = FALSE]

AuthHeaders ==
  { NoHeader,
    <<"Bearer">>,
    Bearer(Token("bad", FALSE, 1)),
    Bearer(Token("bad", TRUE, 1)),
    Bearer(Token("ok", TRUE, 1)),
    Bearer(ValidToken(1)),
    Bearer(ValidToken(2)),
    Bearer(ValidToken(3)),
    Bearer(ValidToken(NoSuchUser)),
    <<"Basic", ValidToken(1)>> }

InitAuth ==
  /\ users = AuthStore
  /\ data = EmptyStore
  /\ nextUserId = 4
  /\ nextDataId = 1
  /\ reqs = [q \in Reqs |-> IdleReq]

NextAuth ==
  \E q \in Reqs :
    \/ \E h \in AuthHeaders : Profile_Start(q, h)
    \/ Profile_Find(q)
    \/ \E h \in AuthHeaders : OptionalAuth_Run(q, h)
    \/ \E h \in AuthHeaders : DeleteAccount_Start(q, h)
    \/ DeleteAccount_DeleteMany(q)
    \/ DeleteAccount_DeleteUser(q)

SpecAuth == InitAuth /\ [][NextAuth]_vars

-----------------------------------------------------------------------------
(* SpecAccount: account deletion next to the creation and reading of records *)

NextAccount ==
  \E q \in Reqs :
    \/ \E h \in Tokens({1, 2}) : PostData_Start(q, h, GoodPost)
    \/ PostData_Save(q)
    \/ \E h \in Tokens({1, 3}) : GetList_Start(q, h, NoQuery)
    \/ GetList_Find(q)
    \/ GetList_Count(q)
    \/ \E h \in Tokens({1, 2}) : DeleteAccount_Start(q, h)
    \/ DeleteAccount_DeleteMany(q)
    \/ DeleteAccount_DeleteUser(q)

SpecAccount == InitSeeded /\ [][NextAccount]_vars

-----------------------------------------------------------------------------
(* SpecPost: POST /api/data with good and bad bodies *)

\* the bodies sent to POST /api/data
PostBodies ==
  { GoodPost,
    [NoBody EXCEPT !.has = {"title", "category", "value", "tags", "isPublic"},
       !.title = <<" ", "m", " ">>, !.category = "other", !.value = Num(0),
       !.tags = Arr(<< <<"t">>, <<" ">> >>), !.isPublic = TRUE],
    [NoBody EXCEPT !.has = {"title", "category", "value"},
       !.title = <<"c">>, !.category = "bogus", !.value = Num(1)],
    [NoBody EXCEPT !.has = {"title", "category", "value"},
       !.title = <<"c">>, !.category = "metrics", !.value = Num(-1)],
    [NoBody EXCEPT !.has = {"title", "category", "value"},
       !.title = <<"c">>, !.category = "metrics", !.value = NotNum],
    [NoBody EXCEPT !.has = {"title", "category", "value"},
       !.title = <<" ">>, !.category = "metrics", !.value = Num(1)],
    [NoBody EXCEPT !.has = {"title", "value"},
       !.title = <<"c">>, !.value = Num(1)],
    [NoBody EXCEPT !.has = {"category", "value"},
       !.category = "bogus", !.value = Num(-1)] }

NextPost ==
  \E q \in Reqs :
    \/ \E h \in Tokens({1}) \cup {NoHeader}, b \in PostBodies : PostData_Start(q, h, b)
    \/ PostData_Save(q)
    \/ \E h \in Tokens({1}), id \in RecordIds : DeleteData_Start(q, h, id)
    \/ DeleteData_Find(q)
    \/ DeleteData_Delete(q)

SpecPost == InitSeeded /\ [][NextPost]_vars

-----------------------------------------------------------------------------
(* SpecPut: PUT and DELETE /api/data/:id with good and bad requests.  One  *)
(* client sends every body of PutBodies; the requests served next to its   *)
(* own create, delete and set the status of records.                       *)

\* the bodies sent to PUT /api/data/:id
PutBodies ==
  { StatusOnly,
    [NoBody EXCEPT !.has = {"title", "value", "tags", "user"},
       !.title = <<" ", "n">>, !.value = Num(7), !.tags = NotArr, !.user = 2],
    [NoBody EXCEPT !.has = {"title", "category"},
       !.title = <<"n">>, !.category = "bogus"],
    [NoBody EXCEPT !.has = {"status", "value"}, !.status = "pending", !.value = Num(-1)],
    [NoBody EXCEPT !.has = {"status"}, !.status = "done"],
    [NoBody EXCEPT !.has = {"title"}, !.title = <<" ">>],
    [NoBody EXCEPT !.has = AllPaths,
       !.title = <<"n">>, !.description = <<"d", " ">>, !.category = "reports",
       !.value = Num(7), !.unit = <<"s">>, !.tags = Arr(<< <<"t">>, <<" ">> >>),
       !.status = "pending", !.isPublic = TRUE] }

\* the :id parameters sent: every record identifier, and a malformed one
AnyIds == {MalformedId} \cup RecordIds

NextPut ==
  \/ \E h \in Tokens({1}), id \in RecordIds, b \in PutBodies :
       PutData_Start("q1", h, id, b)
  \/ \E q \in Reqs :
       \/ \E h \in Tokens({1, 2}) : PostData_Start(q, h, GoodPost)
       \/ PostData_Save(q)
       \/ \E h \in Tokens({1}), id \in AnyIds : PutData_Start(q, h, id, StatusOnly)
       \/ \E id \in RecordIds : PutData_Start(q, NoHeader, id, StatusOnly)
       \/ PutData_Find(q)
       \/ PutData_Update(q)
       \/ \E h \in Tokens({1}) \cup {NoHeader}, id \in AnyIds : DeleteData_Start(q, h, id)
       \/ DeleteData_Find(q)
       \/ DeleteData_Delete(q)

SpecPut == InitSeeded /\ [][NextPut]_vars

-----------------------------------------------------------------------------
(* SpecRegister: registrations served concurrently *)

\* the emails sent: one that a seeded user has, in another case, and new ones
RegisterEmails ==
  { <<"A", "@", "x">>, <<"d", "@", "x">>, <<"D", "@", "X">>, <<"e", "@", "x">> }

NextRegister ==
  \E q \in Reqs :
    \/ \E em \in RegisterEmails : Register_FindOne(q, em)
    \/ Register_Save(q)
    \/ \E h \in Tokens({1, 4}) : Profile_Start(q, h)
    \/ Profile_Find(q)

SpecRegister == InitSeeded /\ [][NextRegister]_vars

-----------------------------------------------------------------------------
(* SpecPage: the two list routes, next to deletions of records *)

\* the number of records user 1 has when the requests start
PageRecords == 3

PageData ==
  [i \in 1..PageRecords |->
     newData([GoodPost EXCEPT !.category = IF i % 2 = 1 THEN "metrics" ELSE "other",
                              !.value = Num((i * 7) % 5)],
             i, 1)]

InitPage ==
  /\ users = SeedStore
  /\ data = PageData
  /\ nextUserId = 4
  /\ nextDataId = PageRecords + 1
  /\ reqs = [q \in Reqs |-> IdleReq]

PageNumbers == {0, 1, 2}
PageLimits == {0, 1, 2}

\* the list queries sent to GET /api/data
PageQueries ==
  {[NoQuery EXCEPT !.page = pg, !.limit = l] : pg \in PageNumbers, l \in PageLimits}
  \cup { NoQuery,
         [NoQuery EXCEPT !.limit = 1, !.category = "metrics"],
         [NoQuery EXCEPT !.page = 2, !.limit = 2, !.sortBy = "value",
                         !.sortOrder = "asc", !.status = "active"],
         [NoQuery EXCEPT !.limit = 2, !.search = <<" ", "C">>] }

\* the search strings sent to GET /api/user/search
SearchStrings == { <<"@", "x">>, <<"A", "@">>, <<"z", "z">>, <<"@", " ">>, <<>> }

NextPage ==
  \/ \E qy \in PageQueries : GetList_Start("q1", Bearer(ValidToken(1)), qy)
  \/ \E sr \in SearchStrings, pg \in {1, 2}, l \in {0, 1, 2, 10} :
       Search_Start("q1", Bearer(ValidToken(1)), sr, pg, l)
  \/ \E q \in Reqs :
       \/ GetList_Find(q)
       \/ GetList_Count(q)
       \/ Search_Find(q)
       \/ Search_Count(q)
       \/ \E id \in 1..PageRecords : DeleteData_Start(q, Bearer(ValidToken(1)), id)
       \/ DeleteData_Find(q)
       \/ DeleteData_Delete(q)
       \/ \E h \in Tokens({2}) : DeleteAccount_Start(q, h)
       \/ DeleteAccount_DeleteMany(q)
       \/ DeleteAccount_DeleteUser(q)

SpecPage == InitPage /\ [][NextPage]_vars

-----------------------------------------------------------------------------
(* SpecRevoke: every route behind authenticateToken, called with the tokens *)
(* of a user who deletes the account and of a user who was deactivated      *)

RevokedTokens == Tokens({1, 2})

NextRevoke ==
  \E q \in Reqs, h \in RevokedTokens :
    \/ PostData_Start(q, h, GoodPost)
    \/ PostData_Save(q)
    \/ GetList_Start(q, h, NoQuery)
    \/ GetList_Find(q)
    \/ GetList_Count(q)
    \/ \E id \in RecordIds : GetOne_Start(q, h, id)
    \/ GetOne_Find(q)
    \/ \E id \in RecordIds : PutData_Start(q, h, id, StatusOnly)
    \/ PutData_Find(q)
    \/ PutData_Update(q)
    \/ \E id \in RecordIds : DeleteData_Start(q, h, id)
    \/ DeleteData_Find(q)
    \/ DeleteData_Delete(q)
    \/ Profile_Start(q, h)
    \/ Profile_Find(q)
    \/ Search_Start(q, h, <<"@", "x">>, 1, 10)
    \/ Search_Find(q)
    \/ Search_Count(q)
    \/ DeleteAccount_Start(q, h)
    \/ DeleteAccount_DeleteMany(q)
    \/ DeleteAccount_DeleteUser(q)

SpecRevoke == InitAuth /\ [][NextRevoke]_vars

-----------------------------------------------------------------------------
(* Properties *)

\* the request of slot q took the step
Stepped(q) == reqs'[q] # reqs[q]

ReadKinds == {"GET /api/data", "GET /api/data/:id"}
RecordKinds == {"GET /api/data/:id", "PUT /api/data/:id", "DELETE /api/data/:id"}
Protected == {"GET /api/user/profile", "DELETE /api/user/account"}

\* the documents of a response
outDocs(r) == {r.out[i] : i \in 1..Len(r.out)}

\* C1: a caller without the admin role who names another user's record in
\* GET, PUT or DELETE /api/data/:id is answered 403 and the store is left
\* alone; no response to such a caller holds a record of another user; and a
\* record is changed or removed only by a request of its owner.
C1_Step ==
  /\ \A q \in Reqs :
       LET r == reqs[q] IN
         ( /\ Stepped(q)
           /\ r.kind \in RecordKinds /\ r.pc = "findById"
           /\ r.user.role # "admin"
           /\ r.id \in DOMAIN data /\ data[r.id].user # r.user._id )
         => /\ reqs'[q].pc = "done" /\ reqs'[q].status = 403
            /\ reqs'[q].out = <<>>
            /\ data' = data
  /\ \A q \in Reqs :
       (reqs'[q].kind \in ReadKinds /\ reqs'[q].user.role # "admin")
         => \A d \in outDocs(reqs'[q]) : d.user = reqs'[q].user._id
  /\ \A i \in DOMAIN data :
       (i \notin DOMAIN data' \/ data'[i] # data[i])
         => \E q \in Reqs : Stepped(q) /\ reqs[q].user._id = data[i].user

C1_NoForeignAccess == [][C1_Step]_vars

\* a user without the admin role has been refused another user's record,
\* which is still in the store
C1_Witness ==
  \E q \in Reqs :
    /\ reqs[q].kind \in RecordKinds /\ reqs[q].status = 403
    /\ reqs[q].user.role = "user"
    /\ reqs[q].id \in DOMAIN data /\ data[reqs[q].id].user # reqs[q].user._id

\* C3: GET, PUT and DELETE /api/data/:id by an admin are never answered 403,
\* as requireOwnership decides for an admin
C3_AdminAllowed ==
  \A q \in Reqs :
    (reqs[q].kind \in RecordKinds /\ reqs[q].pc = "done"
       /\ reqs[q].user.role = "admin")
      => /\ requireOwnership(reqs[q].user, NoSuchUser) = 0
         /\ reqs[q].status # 403

\* what C2 and C7 ask of a header and the user store for the request to be
\* given an identity
tokenAccepted(h, us) ==
  /\ Len(h) >= 2
  /\ h[2].sig = "ok" /\ ~h[2].expired
  /\ h[2].id \in DOMAIN us
  /\ us[h[2].id].isActive

\* C2: a request to a route behind authenticateToken reaches the handler, with
\* the user named by the token attached, exactly when the token is present and
\* verifies and that user is in the store and active; otherwise it is
\* answered 401; and no handler step is taken by a request that was not let in.
C2_Step ==
  \A q \in Reqs :
    (Stepped(q) /\ reqs'[q].kind \in Protected) =>
      LET r == reqs'[q]
          ok == tokenAccepted(r.header, users)
      IN IF Free(q)
           THEN /\ (r.next = 1) <=> ok
                /\ ok => /\ r.status = 0 /\ r.pc # "done"
                          /\ r.user._id = r.header[2].id
                          /\ r.user.role = users[r.user._id].role
                /\ ~ok => /\ r.status = 401 /\ r.pc = "done"
                           /\ r.user = NoUser
           ELSE reqs[q].next = 1 /\ reqs[q].status = 0

C2_AuthenticateToken == [][C2_Step]_vars

\* both outcomes at once: one request was let in with the token of an active
\* user, another was answered 401 for the token of the deactivated user
C2_Witness ==
  \E p, q \in Reqs :
    /\ reqs[p].kind \in Protected /\ reqs[p].next = 1 /\ reqs[p].user._id = 1
    /\ reqs[q].kind \in Protected /\ reqs[q].status = 401
    /\ reqs[q].header = Bearer(ValidToken(2))

\* C7: optionalAuth sends no response and calls next() once, whatever the
\* header; the identity is attached exactly when the token verifies and names
\* a user that is in the store and active.
C7_Step ==
  \A q \in Reqs :
    (Stepped(q) /\ reqs'[q].kind = "optionalAuth") =>
      LET r == reqs'[q]
          ok == tokenAccepted(r.header, users)
      IN /\ r.status = 0
         /\ r.next = 1
         /\ ok => (r.user._id = r.header[2].id /\ r.user.role = users[r.user._id].role)
         /\ ~ok => r.user = NoUser

C7_OptionalAuth == [][C7_Step]_vars

\* optionalAuth has passed on a request that carried a token with a bad
\* signature, and one that carried a good token
C7_Witness ==
  \E p, q \in Reqs :
    /\ reqs[p].kind = "optionalAuth" /\ reqs[p].next = 1
    /\ Len(reqs[p].header) = 2 /\ reqs[p].header[2].sig = "bad"
    /\ reqs[p].user = NoUser
    /\ reqs[q].kind = "optionalAuth" /\ reqs[q].next = 1
    /\ reqs[q].user._id = 3

\* C4: once DELETE /api/user/account has answered 200 to user U, the user
\* store holds no U, the data store holds no record of U, and no response
\* sent holds a record of U.
C4_AccountGone ==
  \A q \in Reqs :
    (reqs[q].kind = "DELETE /api/user/account" /\ reqs[q].status = 200) =>
      LET u == reqs[q].user._id IN
        /\ u \notin DOMAIN users
        /\ \A i \in DOMAIN data : data[i].user # u

\* what C5 calls a bad body: the category is none of the five, or the value
\* is not a number or is negative
claimBadPost(b) ==
  \/ ~(Has(b, "category") /\
        b.category \in {"analytics", "reports", "insights", "metrics", "other"})
  \/ ~(Has(b, "value") /\ b.value.t = "number" /\ b.value.n >= 0)

\* C5: an authenticated POST /api/data whose category is none of the five or
\* whose value is negative or no number is answered 400, and a record is only
\* ever created by a POST whose body has neither fault.
C5_Step ==
  /\ \A q \in Reqs :
       LET r == reqs'[q] IN
         (r.kind = "POST /api/data" /\ r.next = 1 /\ claimBadPost(r.body))
           => /\ r.pc = "done" /\ r.status = 400 /\ r.out = <<>>
              /\ Stepped(q) => (data' = data /\ users' = users)
  /\ (DOMAIN data' # DOMAIN data /\ DOMAIN data \subseteq DOMAIN data')
       => \E q \in Reqs : /\ Stepped(q) /\ reqs[q].kind = "POST /api/data"
                            /\ ~claimBadPost(reqs[q].body)
                            /\ reqs'[q].status = 201

C5_BadPostRejected == [][C5_Step]_vars

\* a POST with a category outside the enum and one with a value that is no
\* number have both been answered 400 to an authenticated user
C5_Witness ==
  \E p, q \in Reqs :
    /\ reqs[p].kind = "POST /api/data" /\ reqs[p].next = 1
    /\ reqs[p].body.category = "bogus" /\ reqs[p].status = 400
    /\ reqs[q].kind = "POST /api/data" /\ reqs[q].next = 1
    /\ reqs[q].body.value = NotNum /\ reqs[q].status = 400

\* the value a successful PUT leaves in field f of a record, for a body b
\* that holds f: strings trimmed, blank tags (and tags that are no array)
\* dropped, the others as sent
claimSent(b, f) ==
  CASE f = "title" -> trim(b.title)
    [] f = "description" -> trim(b.description)
    [] f = "unit" -> trim(b.unit)
    [] f = "value" -> b.value.n
    [] f = "tags" -> IF b.tags.arr
                       THEN SelectSeq(b.tags.v, LAMBDA x : \E i \in 1..Len(x) : x[i] # " ")
                       ELSE <<>>
    [] OTHER -> b[f]

\* C6: the write of a PUT /api/data/:id sets the fields the body holds,
\* leaves the other fields of the record, its owner and the other records as
\* they were; and no step changes the owner of a record.
C6_Step ==
  /\ \A q \in Reqs :
       LET r == reqs[q] IN
         ( /\ Stepped(q) /\ r.kind = "PUT /api/data/:id" /\ r.pc = "update"
           /\ reqs'[q].status = 200 /\ r.id \in DOMAIN data )
         => /\ DOMAIN data' = DOMAIN data
            /\ \A j \in DOMAIN data : j # r.id => data'[j] = data[j]
            /\ data'[r.id]._id = data[r.id]._id
            /\ \A f \in AllPaths :
                 data'[r.id][f] =
                   IF f \in r.body.has THEN claimSent(r.body, f) ELSE data[r.id][f]
            /\ reqs'[q].out = <<data'[r.id]>>
  /\ \A i \in DOMAIN data \cap DOMAIN data' : data'[i].user = data[i].user

C6_PartialUpdate == [][C6_Step]_vars

\* a PUT that sent only the status has succeeded: the record has the new
\* status and the title, value and unit it was created with
C6_Witness ==
  \E q \in Reqs :
    /\ reqs[q].kind = "PUT /api/data/:id" /\ reqs[q].status = 200
    /\ reqs[q].body.has = {"status"}
    /\ reqs[q].id \in DOMAIN data
    /\ data[reqs[q].id].status = "inactive"
    /\ data[reqs[q].id].title = <<"c">> /\ data[reqs[q].id].value = 42
    /\ data[reqs[q].id].unit = <<"%">>

\* C8: a step of a PUT or DELETE /api/data/:id request that changes a store
\* is the step that answers 200, so a request answered 400, 401, 403 or 404
\* has written nothing, neither in the step that answers nor before.
C8_Step ==
  \A q \in Reqs :
    ( /\ Stepped(q)
      /\ reqs'[q].kind \in {"PUT /api/data/:id", "DELETE /api/data/:id"}
      /\ (data' # data \/ users' # users \/ reqs'[q].status \in {400, 401, 403, 404}) )
    => /\ reqs'[q].pc = "done"
       /\ IF reqs'[q].status = 200
            THEN users' = users
            ELSE /\ reqs'[q].status \in {400, 401, 403, 404}
                 /\ data' = data /\ users' = users

C8_NoWriteBeforeFailure == [][C8_Step]_vars

\* a PUT was refused for another user's record, which is still in the store,
\* and a DELETE was answered 404
C8_Witness ==
  \E p, q \in Reqs :
    /\ reqs[p].kind = "PUT /api/data/:id" /\ reqs[p].status = 403
    /\ reqs[p].id \in DOMAIN data /\ data[reqs[p].id].user # reqs[p].user._id
    /\ reqs[q].kind = "DELETE /api/data/:id" /\ reqs[q].status = 404

UpperLetters == {"A", "B", "C", "D", "X"}

\* an email without upper-case letters
isLowerCase(em) == \A i \in 1..Len(em) : em[i] \notin UpperLetters

\* two emails that differ at most in the case of their letters
sameEmail(e1, e2) ==
  /\ Len(e1) = Len(e2)
  /\ \A i \in 1..Len(e1) :
       \/ e1[i] = e2[i]
       \/ \E c \in UpperLetters : {e1[i], e2[i]} = {c, lowerChar(c)}

\* C9: no two users have the same email up to case, every stored email is in
\* lower case, and a registration that ends while a user with its email (in
\* any case) is in the store is answered 400 and creates no user.
C9_Step ==
  /\ \A i, j \in DOMAIN users' :
       i # j => ~sameEmail(users'[i].email, users'[j].email)
  /\ \A i \in DOMAIN users' : isLowerCase(users'[i].email)
  /\ \A q \in Reqs :
       ( /\ Stepped(q) /\ reqs'[q].kind = "POST /api/auth/register"
         /\ reqs'[q].pc = "done"
         /\ \E i \in DOMAIN users : sameEmail(users[i].email, reqs'[q].email) )
       => (reqs'[q].status = 400 /\ users' = users)

C9_UniqueEmails == [][C9_Step]_vars

\* n = ceil(total / l), for l # 0
isCeil(n, total, l) ==
  IF l > 0 THEN n * l >= total /\ (n - 1) * l < total
  ELSE l < 0 /\ n * l <= total /\ (n - 1) * l > total

ListKinds == {"GET /api/data", "GET /api/user/search"}

\* C10: a list response holds at most limit items, its pages is
\* ceil(total / limit), and it echoes page and limit.
C10_Pagination ==
  \A q \in Reqs :
    (reqs[q].kind \in ListKinds /\ reqs[q].status = 200) =>
      LET r == reqs[q] IN
        /\ Len(r.out) <= r.query.limit
        /\ r.pagination.pages.finite
        /\ isCeil(r.pagination.pages.n, r.pagination.total, r.query.limit)
        /\ r.pagination.page = r.query.page
        /\ r.pagination.limit = r.query.limit

\* the same for the requests with limit >= 1, with the total being the
\* number of matching documents when they are counted
C10_PositiveLimit_Step ==
  \A q \in Reqs :
    ( /\ Stepped(q) /\ reqs'[q].kind \in ListKinds /\ reqs'[q].status = 200
      /\ reqs'[q].query.limit >= 1 ) =>
      LET r == reqs'[q] IN
        /\ Len(r.out) <= r.query.limit
        /\ r.pagination.pages.finite
        /\ isCeil(r.pagination.pages.n, r.pagination.total, r.query.limit)
        /\ r.pagination.page = r.query.page
        /\ r.pagination.limit = r.query.limit
        /\ r.pagination.total =
             IF r.kind = "GET /api/data"
               THEN Cardinality({i \in DOMAIN data :
                                   matchesFilter(data[i], r.user._id, r.query)})
               ELSE Cardinality({i \in DOMAIN users :
                                   regexTestI(trim(r.search), users[i].email)})

C10_PositiveLimit == [][C10_PositiveLimit_Step]_vars

\* C11: PUT /api/data/:id behaves as one conditional write keyed by the record
\* id, as in some serial order of the requests on the record: a PUT is
\* answered 200 only by the step that updates a record that is in the store,
\* and the response holds the updated record.
C11_Step ==
  \A q \in Reqs :
    ( /\ Stepped(q) /\ reqs'[q].kind = "PUT /api/data/:id"
      /\ reqs'[q].status = 200 )
    => /\ reqs[q].id \in DOMAIN data
       /\ reqs[q].id \in DOMAIN data'
       /\ reqs'[q].out = <<data'[reqs[q].id]>>

C11_AtomicUpdate == [][C11_Step]_vars

\* an account deletion is between its first and its last store call
deletionInProgress ==
  \E q \in Reqs : /\ reqs[q].kind = "DELETE /api/user/account"
                  /\ reqs[q].pc \in {"deleteMany", "deleteUser"}

\* C12: whenever no account deletion is in progress, the owner of every data
\* record is a user of the user store, whatever POST /api/data requests of a
\* deleted user were in flight.
C12_ReferentialIntegrity ==
  ~deletionInProgress => \A i \in DOMAIN data : data[i].user \in DOMAIN users

\* the routes behind authenticateToken
BearerKinds ==
  RecordKinds \cup Protected \cup ListKinds \cup {"POST /api/data"}

\* the user a well-signed, unexpired token was issued to is gone from the
\* store or has the active flag cleared
revoked(h, us) ==
  /\ Len(h) = 2 /\ h[1] = "Bearer"
  /\ h[2].sig = "ok" /\ ~h[2].expired /\ h[2].id \in SeedUsers
  /\ (h[2].id \notin DOMAIN us \/ ~us[h[2].id].isActive)

\* C13: a request to a route behind authenticateToken that starts when the
\* user of its token has been deleted or deactivated is answered 401 at once,
\* with no identity attached and the stores left alone; and a request that
\* was not let in takes no handler step.
C13_Step ==
  \A q \in Reqs :
    (Stepped(q) /\ reqs'[q].kind \in BearerKinds) =>
      IF Free(q)
        THEN revoked(reqs'[q].header, users) =>
               /\ reqs'[q].pc = "done" /\ reqs'[q].status = 401
               /\ reqs'[q].next = 0 /\ reqs'[q].user = NoUser
               /\ data' = data /\ users' = users
        ELSE reqs[q].next = 1

C13_ImmediateRevocation == [][C13_Step]_vars

\* user 1 has deleted the account and a later request with the token of
\* user 1 was answered 401, as was a request with the token of the
\* deactivated user 2
C13_Witness ==
  \E p, q \in Reqs :
    /\ 1 \notin DOMAIN users
    /\ reqs[p].kind \in BearerKinds /\ reqs[p].header = Bearer(ValidToken(1))
    /\ reqs[p].status = 401
    /\ reqs[q].kind \in BearerKinds /\ reqs[q].header = Bearer(ValidToken(2))
    /\ reqs[q].status = 401

====
